---- MODULE Spec2Model ----
(***************************************************************************)
(* The request / authentication pipeline of the Aura API client.           *)
(*                                                                         *)
(* Several generations of the client live in the repository and all are    *)
(* modelled over the same variables:                                       *)
(*                                                                         *)
(*   Spec     the client of aura/aura.go: the four operations, sent        *)
(*            through the retrying HTTP client that NewClient configures   *)
(*            (go-retryablehttp, RetryMax = retries, the ErrorHandler of   *)
(*            aura.go:80-90) underneath the client-credentials token       *)
(*            source of aura.go:94-100.                                    *)
(*   SpecWire the same client, with its endpoint and version options, the  *)
(*            requests it builds and the headers and bodies of the         *)
(*            answers in view.                                             *)
(*   SpecTok  the client that keeps its own token cache (accessToken,      *)
(*            tokenExpiresAt) and signs each request itself: Do, sign and  *)
(*            authenticate over a plain http.Client.                       *)
(*   SpecTok2 that client shared by two concurrent callers.                *)
(*   SpecOpt  the client of aura.go with WithRetries and WithHTTPClient,    *)
(*            the arguments of CreateInstance varied, the context given    *)
(*            to NewClient cancelled at any moment and the messages of     *)
(*            the returned errors read.                                    *)
(*   SpecSeq  the client of SpecTok with the outcome of earlier calls in   *)
(*            view.                                                        *)
(*   SpecMid  the client the tests of unnamed/part_001 construct: the      *)
(*            token cache of SpecTok with the retry option, each send of   *)
(*            Do being a run of the retry loop.                            *)
(*                                                                         *)
(* One step of a call is one request/response exchange with the server or  *)
(* one access to the token cache.  The server is free: every request is    *)
(* answered by any status of Statuses or by a transport error.             *)
(***************************************************************************)
EXTENDS Integers, Sequences, FiniteSets, TLC

VARIABLES
    retries,         \* client.retries
    httpClient,      \* client.httpClient underneath the token source:
                     \* "retrying" (r.StandardClient()) or "plain"
    ctxDone,         \* the context given to NewClient has been cancelled
    endpoint,        \* client.endpoint
    version,         \* client.version
    tenantID,        \* client.tenantID
    failed,          \* an operation on this client has returned an error
    accessToken,     \* the cached bearer token, "" when none is held
    tokenExpiresAt,  \* expiry of the cached token
    origin,          \* the callers whose token response wrote the cached
                     \* token and the cached expiry (0: construction)
    seeded,          \* the token and expiry construction was given, if any
    now,             \* the clock, time.Now()
    callers,         \* the callers that use the client
    call,            \* per caller: the operation in progress
    nCalls,          \* operations started so far
    destroyed        \* ids whose DestroyInstance has returned success

vars == <<retries, httpClient, ctxDone, endpoint, version, tenantID, failed,
          accessToken, tokenExpiresAt, origin, seeded, now, callers, call,
          nCalls, destroyed>>

---------------------------------------------------------------------------
\* Bounds of the model.

MaxRetries == 2
MaxTime == 3
MaxCalls == 2
MaxReads == 2

\* "the maximum number of retries are 3"
DocumentedMaxRetries == 3

---------------------------------------------------------------------------
\* Values.

StatusOK == 200
StatusMultipleChoices == 300
StatusForbidden == 403
StatusNotFound == 404

\* the zero time.Time of a token that never expires
NoExpiry == -1
\* golang.org/x/oauth2 treats a token as expired this long before its expiry
ExpiryDelta == 10

Callers == {1, 2}
Ids == {"a", "b"}
Tokens == {"t1", "t2"}

\* statuses the resource endpoint may answer with
Statuses == {200, 299, 300, 403, 404, 429, 500, 501, 502, 503, 504, 505}
\* statuses the token endpoint may answer with
TokStatuses == {200, 401, 500, 501}
\* expires_in values of a token response (-1: the key is absent)
ExpiresIn == {0, 11}

\* no token was handed to the constructor
NoSeed == [set |-> FALSE, exp |-> 0]
\* the cache holds what construction put there
NoOrigin == [tok |-> 0, exp |-> 0]

\* const endpoint, const version, and what WithEndpoint / WithVersion may set
DefaultEndpoint == "https://api.neo4j.io"
DefaultVersion == "v1"
\* the tenant ids a client is constructed with
DefaultTenant == "mox"
Tenants == {DefaultTenant, "YOUR_TENANT_ID"}

\* the arguments of CreateInstance: name, cloudProvider, memory, version,
\* region, instanceType
NoArgs == <<>>
Args(n, c, m, v, r, t) ==
    [name |-> n, cloudProvider |-> c, memory |-> m, version |-> v,
     region |-> r, instanceType |-> t]
DefaultArgs == Args("foo", "gcp", "2GB", "5", "europe-west1", "enterprise-db")
CreateArgs ==
    {DefaultArgs, Args("bar", "aws", "8GB", "4", "us-east1", "professional-db")}

Endpoints == {DefaultEndpoint, "http://127.0.0.1"}
Versions == {DefaultVersion, "v2"}

\* values of the X-Request-Id and X-Tyk-Api-Expires response headers, "" when
\* the header is absent
RequestIds == {"", "track-me-123"}
DepDates == {"", "13. Nov 2026"}

\* a JSON value found under a key: a string, or a value of another type
Str(x) == [t |-> "string", v |-> x]
Num(x) == [t |-> "number", v |-> x]

\* the keys the decoders look up, in the order newCreateResponse and
\* newGetResponse look them up
CreateKeys ==
    <<"id", "connection_url", "username", "password", "name", "tenant_id",
      "cloud_provider", "region", "type">>
GetKeys ==
    <<"id", "connection_url", "name", "tenant_id", "cloud_provider", "region",
      "type", "status", "memory", "storage">>
AllKeys == {CreateKeys[i] : i \in DOMAIN CreateKeys}
               \cup {GetKeys[i] : i \in DOMAIN GetKeys}

\* A response body.  form: "json" when the body is a JSON object, "text"
\* otherwise; env: "data" when the object has a `data` key holding the object
\* m, "scalar" when `data` holds something that is no object, "none" when the
\* object has no `data` key and m are its own keys.
TextBody == [form |-> "text", env |-> "none", m |-> <<>>]
\* what is left of a body once it has been read
EmptyBody == [form |-> "empty", env |-> "none", m |-> <<>>]
JsonBody(e, f) == [form |-> "json", env |-> e, m |-> f]

\* every key holds its own name / every key holds the same string
NamedData == [k \in AllKeys |-> Str(k)]
SameData == [k \in AllKeys |-> Str("x")]
\* key k is absent / holds a number
Without(f, k) == [j \in (DOMAIN f) \ {k} |-> f[j]]
WrongType(f, k) == [f EXCEPT ![k] = Num("7")]

FullBody == JsonBody("data", NamedData)
NoDataBody == JsonBody("none", NamedData)

\* the bodies a 2xx answer is tried with
WireBodies ==
    {FullBody, NoDataBody, TextBody, JsonBody("data", SameData),
     JsonBody("scalar", <<>>),
     JsonBody("data", Without(Without(NamedData, "name"), "status"))}
    \cup {JsonBody("data", Without(NamedData, k)) : k \in AllKeys}
    \cup {JsonBody("data", WrongType(NamedData, k)) : k \in AllKeys}

NoResp == [kind |-> "none", status |-> 0, reqId |-> "", dep |-> "",
           body |-> TextBody]
NetErr == [kind |-> "err", status |-> 0, reqId |-> "", dep |-> "",
           body |-> TextBody]
Resp(s, i, d, b) ==
    [kind |-> "resp", status |-> s, reqId |-> i, dep |-> d, body |-> b]

IsSuccess(s) == s >= StatusOK /\ s < StatusMultipleChoices

\* the status of an answer, -1 when the network gave none
Observed(r) == IF r.kind = "resp" THEN r.status ELSE -1

\* what the resource endpoint, or the network, can hand back for one request
Responses ==
    {Resp(s, "", "", TextBody) : s \in {x \in Statuses : ~IsSuccess(x)}}
    \cup {Resp(s, "", "", b) :
            s \in {x \in Statuses : IsSuccess(x)},
            b \in {FullBody, NoDataBody}}
    \cup {NetErr}

\* the same, with the headers and the bodies varied over fewer statuses
WireStatuses == {200, 299, 300, 404, 500}
WireResponses ==
    {Resp(s, i, d, TextBody) :
        s \in WireStatuses, i \in RequestIds, d \in DepDates}
    \cup {Resp(200, "track-me-123", "", b) : b \in WireBodies}
    \cup {Resp(s, i, "", FullBody) : s \in {404, 500}, i \in RequestIds}
    \cup {NetErr}

\* the outcome of a token request whose context is done
CtxErr == [kind |-> "err", status |-> 0, tok |-> "missing", exp |-> -1]

\* what the token endpoint can hand back: access_token is a token, the empty
\* string or absent ("missing"); expires_in is a number or absent (-1)
TokResponses ==
    {[kind |-> "resp", status |-> s, tok |-> "missing", exp |-> -1] :
        s \in {x \in TokStatuses : ~IsSuccess(x)}}
    \cup {[kind |-> "resp", status |-> s, tok |-> t, exp |-> e] :
        s \in {x \in TokStatuses : IsSuccess(x)},
        t \in Tokens \cup {"", "missing"}, e \in ExpiresIn \cup {-1}}
    \cup {[kind |-> "err", status |-> 0, tok |-> "missing", exp |-> -1]}

\* the request of an operation
NoBody == <<>>
NoReq == [method |-> "", url |-> <<>>, body |-> NoBody]

\* the cause inside an error: "status" (the status text of a response),
\* "giveup" (the retry loop gave up after `attempts` tries on `status`),
\* "token" (the token source failed), "transport", or a decoder's complaint
\* "json", "nodata", "notmap", "missing" (about `key`)
Cause(k, s, f, n) == [kind |-> k, status |-> s, key |-> f, attempts |-> n]
NoCause == Cause("none", 0, "", 0)
DecodeKinds == {"json", "nodata", "notmap", "missing"}

\* an error value: the fields of AuraError
NoError == [Err |-> NoCause, requestID |-> "", response |-> NoResp]

IdleCall ==
    [pc |-> "idle", op |-> "none", id |-> "none",
     args |-> NoArgs,     \* the arguments of CreateInstance
     req |-> NoReq,       \* the request newRequest built
     attempt |-> 0,       \* attempts made by the retry loop in progress
     resReqs |-> 0,       \* resource requests sent by this call
     tokReqs |-> 0,       \* token requests sent by this call
     last |-> NoResp,     \* last answer to a resource request
     first |-> 0,         \* status of the first answer Do received
     tokLast |-> 0,       \* status of the last token answer (-1: no answer)
     steady |-> TRUE,     \* every resource answer so far equals `last`
     stage |-> 1,         \* 2 once a 403 has sent the call back to sign
     reauths |-> 0,       \* token requests sent after that 403
     resent |-> 0,        \* resource requests sent after that 403
     hdr |-> <<>>,        \* the Authorization values added to the request
     pend |-> [tok |-> "", exp |-> 0],  \* token response being stored
     err |-> NoError,     \* the error the operation returns
     desc |-> <<>>,       \* the descriptor the operation returns
     log |-> <<>>,        \* the warnings handed to the logger
     depSeen |-> FALSE,   \* a resource answer carried the deprecation header
     parsed |-> FALSE,    \* the body of the final response went to a decoder
     closed |-> FALSE,    \* the body of the final response has been closed
     cancelled |-> FALSE, \* the context was cancelled during this call
     texts |-> <<>>,      \* what Error() returned, call after call
     result |-> "none"]   \* "ok", "err" or "panic" once the call is over

---------------------------------------------------------------------------
\* The retrying HTTP client of NewClient (aura.go:78-93).

\* retryablehttp.NewClient() leaves CheckRetry at DefaultRetryPolicy: retry a
\* transport error, 429, and every status >= 500 but 501 (and the invalid 0)
DefaultRetryPolicy(r) ==
    \/ r.kind = "err"
    \/ /\ r.kind = "resp"
       /\ \/ r.status = 429
          \/ r.status = 0
          \/ (r.status >= 500 /\ r.status # 501)

\* faulty variant: the loop leaves one attempt early
RemainOffByOne(n, i) == n - i - 1

\* faulty variant: the loop never runs out of attempts
RemainForever(n, i) == 1

\* r.RetryMax = c.retries; the loop leaves when RetryMax - i <= 0
Remain(n, i) == n - i

\* one more attempt follows the i-th (0-based) answer r
RetryAgain(n, i, r) == DefaultRetryPolicy(r) /\ Remain(n, i) > 0

\* how the loop ends on answer r once no attempt follows: the response is
\* handed on ("resp"), the ErrorHandler turns it into an error ("err"), or
\* the ErrorHandler dereferences the nil response of a transport error
ErrorHandler(r) == IF r.kind = "err" THEN "panic" ELSE "err"

LoopOutcome(r) == IF DefaultRetryPolicy(r) THEN ErrorHandler(r) ELSE "resp"

\* the client the requests go through (aura.go:91-93): the retrying client
\* unless WithHTTPClient has set another one, which sends every request once.
\* The retry policy gives up at once when the context of the request is done
ClientRetries(hc, done, n, i, r) ==
    hc = "retrying" /\ ~done /\ RetryAgain(n, i, r)

\* how that client ends on answer r once no attempt follows; a plain client
\* hands a transport error back as an error ("neterr")
ClientOutcome(hc, r) ==
    IF hc = "retrying" THEN LoopOutcome(r)
    ELSE IF r.kind = "err" THEN "neterr" ELSE "resp"

\* faulty variant: the requestID is left empty
newAuraErrorNoId(e, r) == [Err |-> e, requestID |-> "", response |-> r]

\* newAuraError: the X-Request-Id of the response, the cause, the response
newAuraError(e, r) == [Err |-> e, requestID |-> r.reqId, response |-> r]

\* AuraError.Error(): the cause, the request id and the response body, which
\* is read here unless a decoder has consumed it before
ErrorText(e, consumed) ==
    [cause |-> e.Err, requestID |-> e.requestID,
     body |-> IF consumed \/ e.response.kind # "resp"
              THEN EmptyBody ELSE e.response.body]

\* faulty variant: the tries are counted from zero
NumTriesFromZero(i) == i

\* numTries: the loop has made i+1 tries when it gives up in its pass i
NumTries(i) == i + 1

\* the error the ErrorHandler returns for the response r after n tries
GiveUpError(r, n) == newAuraError(Cause("giveup", r.status, "", n), r)

\* do hands back the error of c.httpClient.Do as it is (aura.go:375-377)
TransportError == [Err |-> Cause("transport", 0, "", 0), requestID |-> "",
                   response |-> NoResp]

\* the error of a call whose token request failed with status s
TokenError(s) == [Err |-> Cause("token", s, "", 0), requestID |-> "",
                  response |-> NoResp]

---------------------------------------------------------------------------
\* The token source of conf.Client(ctx) (aura.go:94-100).

Expired(exp, t) == exp # NoExpiry /\ exp - ExpiryDelta < t

TokenValid(tok, exp, t) == tok # "" /\ ~Expired(exp, t)

\* faulty variant: the status of the token response is not looked at
TokenAcceptedAnyStatus(r) == r.kind = "resp"

\* the token response r is accepted
TokenAccepted(r) ==
    r.kind = "resp" /\ IsSuccess(r.status) /\ r.tok \notin {"", "missing"}

TokenExpiry(r, t) == IF r.exp \in {0, -1} THEN NoExpiry ELSE t + r.exp

---------------------------------------------------------------------------
\* The decoders and the operations' verdicts on the final response.

\* faulty variant: an object without a `data` key is taken for the data
unmarshalResponseBare(r) ==
    IF r.body.form # "json"
    THEN [cause |-> Cause("json", 0, "", 0), env |-> "none", m |-> <<>>]
    ELSE [cause |-> NoCause,
          env |-> IF r.body.env = "none" THEN "data" ELSE r.body.env,
          m |-> r.body.m]

\* unmarshalResponse: the body decoded as a JSON object, and what its `data`
\* key holds
unmarshalResponse(r) ==
    IF r.body.form # "json"
    THEN [cause |-> Cause("json", 0, "", 0), env |-> "none", m |-> <<>>]
    ELSE IF r.body.env = "none"
    THEN [cause |-> Cause("nodata", 0, "data", 0), env |-> "none", m |-> <<>>]
    ELSE [cause |-> NoCause, env |-> r.body.env, m |-> r.body.m]

\* faulty variant: the type of the value is not looked at
HasStringAnyType(m, k) == k \in DOMAIN m

\* m[k].(string) succeeds
HasString(m, k) == k \in DOMAIN m /\ m[k].t = "string"

\* the first key of keys, in order, that m does not hold as a string; 0 if none
FirstBad(keys, m) ==
    LET bad == {i \in DOMAIN keys : ~HasString(m, keys[i])} IN
    IF bad = {} THEN 0 ELSE CHOOSE i \in bad : \A j \in bad : i <= j

CreateFields(m) ==
    [ID |-> m["id"].v,
     ConnectionURL |-> m["connection_url"].v,
     Username |-> m["username"].v,
     Password |-> m["password"].v,
     Name |-> m["name"].v,
     TenantID |-> m["tenant_id"].v,
     CloudProvider |-> m["cloud_provider"].v,
     Region |-> m["region"].v,
     InstanceType |-> m["type"].v]

\* faulty variant: Memory and Storage are taken from each other's key
GetFieldsSwapped(m) ==
    [ID |-> m["id"].v,
     ConnectionURL |-> m["connection_url"].v,
     Name |-> m["name"].v,
     TenantID |-> m["tenant_id"].v,
     CloudProvider |-> m["cloud_provider"].v,
     Region |-> m["region"].v,
     InstanceType |-> m["type"].v,
     Status |-> m["status"].v,
     Memory |-> m["storage"].v,
     Storage |-> m["memory"].v]

GetFields(m) ==
    [ID |-> m["id"].v,
     ConnectionURL |-> m["connection_url"].v,
     Name |-> m["name"].v,
     TenantID |-> m["tenant_id"].v,
     CloudProvider |-> m["cloud_provider"].v,
     Region |-> m["region"].v,
     InstanceType |-> m["type"].v,
     Status |-> m["status"].v,
     Memory |-> m["memory"].v,
     Storage |-> m["storage"].v]

\* the decoders: the complaint, or the descriptor
newCreateResponse(r) ==
    LET u == unmarshalResponse(r) IN
    IF u.cause # NoCause THEN [cause |-> u.cause, resp |-> <<>>]
    ELSE IF u.env # "data"
    THEN [cause |-> Cause("notmap", 0, "", 0), resp |-> <<>>]
    ELSE LET i == FirstBad(CreateKeys, u.m) IN
         IF i # 0
         THEN [cause |-> Cause("missing", 0, CreateKeys[i], 0), resp |-> <<>>]
         ELSE [cause |-> NoCause, resp |-> CreateFields(u.m)]

newGetResponse(r) ==
    LET u == unmarshalResponse(r) IN
    IF u.cause # NoCause THEN [cause |-> u.cause, resp |-> <<>>]
    ELSE IF u.env # "data"
    THEN [cause |-> Cause("notmap", 0, "", 0), resp |-> <<>>]
    ELSE LET i == FirstBad(GetKeys, u.m) IN
         IF i # 0
         THEN [cause |-> Cause("missing", 0, GetKeys[i], 0), resp |-> <<>>]
         ELSE [cause |-> NoCause, resp |-> GetFields(u.m)]

CreateResult(r) ==
    IF ~IsSuccess(r.status) THEN "err"
    ELSE IF newCreateResponse(r).cause = NoCause THEN "ok" ELSE "err"

GetResult(r) ==
    IF ~IsSuccess(r.status) THEN "err"
    ELSE IF newGetResponse(r).cause = NoCause THEN "ok" ELSE "err"

\* faulty variant: only 200 counts as success
PauseResultOnly200(r) == IF r.status = StatusOK THEN "ok" ELSE "err"

PauseResult(r) == IF IsSuccess(r.status) THEN "ok" ELSE "err"

\* faulty variant: every 4xx answer counts as "already gone"
DestroyResultAny4xx(r) ==
    IF (r.status >= 400 /\ r.status < 500) \/ IsSuccess(r.status)
    THEN "ok" ELSE "err"

\* faulty variant: the 404 case is forgotten
DestroyResultNo404(r) == IF IsSuccess(r.status) THEN "ok" ELSE "err"

DestroyResult(r) ==
    IF r.status = StatusNotFound \/ IsSuccess(r.status) THEN "ok" ELSE "err"

OpResult(op, r) ==
    CASE op = "create" -> CreateResult(r)
      [] op = "get" -> GetResult(r)
      [] op = "pause" -> PauseResult(r)
      [] op = "destroy" -> DestroyResult(r)

\* the final response reaches a decoder: create and get, on a 2xx status
OpParsed(op, r) == op \in {"create", "get"} /\ IsSuccess(r.status)

\* the body of the final response is closed before the operation returns:
\* only responseBodyToMap, which the decoders call, closes it
OpClosed(op, r) == OpParsed(op, r)

\* the error the operation returns for its final response
OpError(op, r) ==
    IF OpResult(op, r) = "ok" THEN NoError
    ELSE IF ~IsSuccess(r.status)
    THEN newAuraError(Cause("status", r.status, "", 0), r)
    ELSE IF op = "create" THEN newAuraError(newCreateResponse(r).cause, r)
    ELSE newAuraError(newGetResponse(r).cause, r)

\* faulty variant: on a decode error the descriptor under construction is
\* returned along with the error
OpDescHalfBuilt(op, r) ==
    IF OpResult(op, r) # "ok"
    THEN IF IsSuccess(r.status) /\ op \in {"create", "get"}
         THEN [ID |-> ""] ELSE <<>>
    ELSE IF op = "create" THEN newCreateResponse(r).resp
    ELSE IF op = "get" THEN newGetResponse(r).resp
    ELSE <<>>

\* the descriptor the operation returns for its final response
OpDesc(op, r) ==
    IF OpResult(op, r) # "ok" THEN <<>>
    ELSE IF op = "create" THEN newCreateResponse(r).resp
    ELSE IF op = "get" THEN newGetResponse(r).resp
    ELSE <<>>

\* the request of an operation: newRequest(method, c.api() + path)
api == <<endpoint, version>>
\* the body is the JSON object json.Marshal makes of reqBody, none for nil
newRequest(method, path, reqBody) ==
    [method |-> method, url |-> path, body |-> reqBody]

\* faulty variant: the version key is given the API version of the client
CreateBodyApiVersion(a) ==
    [name |-> a.name, tenant_id |-> tenantID,
     cloud_provider |-> a.cloudProvider, type |-> a.instanceType,
     memory |-> a.memory, version |-> version, region |-> a.region]

\* CreateInstance, lines 203-211: the map handed to newRequest
CreateBody(a) ==
    [name |-> a.name, tenant_id |-> tenantID,
     cloud_provider |-> a.cloudProvider, type |-> a.instanceType,
     memory |-> a.memory, version |-> a.version, region |-> a.region]

OpRequest(op, id, a) ==
    CASE op = "create" ->
            newRequest("POST", api \o <<"instances">>, CreateBody(a))
      [] op = "get" ->
            newRequest("GET", api \o <<"instances", id>>, NoBody)
      [] op = "pause" ->
            newRequest("POST", api \o <<"instances", id, "pause">>, NoBody)
      [] op = "destroy" ->
            newRequest("DELETE", api \o <<"instances", id>>, NoBody)

\* do, lines 379-381: the warning for a response with the deprecation header
Warning(r, u) == [version |-> version, expires |-> r.dep, url |-> u]
Warn(l, r, u) == IF r.dep # "" THEN Append(l, Warning(r, u)) ELSE l

---------------------------------------------------------------------------
\* Construction.

TypeOK ==
    /\ retries \in 0..(DocumentedMaxRetries + 1)
    /\ httpClient \in {"retrying", "plain"}
    /\ ctxDone \in BOOLEAN
    /\ endpoint \in Endpoints
    /\ version \in Versions
    /\ tenantID \in Tenants
    /\ failed \in BOOLEAN
    /\ accessToken \in Tokens \cup {""}
    /\ origin \in [tok : {0} \cup Callers, exp : {0} \cup Callers]
    /\ now \in 0..MaxTime
    /\ callers \subseteq Callers
    /\ nCalls \in 0..MaxCalls
    /\ destroyed \subseteq Ids

\* NewClient(ctx, clientID, clientSecret, tenantID, WithRetries(n)): no token
\* is held until the first request asks the token source for one
Init ==
    /\ retries \in 0..MaxRetries
    /\ httpClient = "retrying"
    /\ ctxDone = FALSE
    /\ endpoint = DefaultEndpoint
    /\ version = DefaultVersion
    /\ tenantID = DefaultTenant
    /\ failed = FALSE
    /\ accessToken = ""
    /\ tokenExpiresAt = NoExpiry
    /\ origin = NoOrigin
    /\ seeded = NoSeed
    /\ now = 1
    /\ callers = {1}
    /\ call = [p \in Callers |-> IdleCall]
    /\ nCalls = 0
    /\ destroyed = {}

---------------------------------------------------------------------------
\* The operations of aura.go.

StartCall(p, op, id, a) ==
    /\ p \in callers
    /\ call[p].pc = "idle"
    /\ nCalls < MaxCalls
    /\ call' = [call EXCEPT ![p] =
                   [IdleCall EXCEPT !.pc = "token", !.op = op, !.id = id,
                                    !.args = a,
                                    !.req = OpRequest(op, id, a)]]
    /\ nCalls' = nCalls + 1
    /\ UNCHANGED <<retries, httpClient, ctxDone, endpoint, version, tenantID,
                   failed, accessToken, tokenExpiresAt,
                   origin, seeded, now, callers, destroyed>>

CreateInstance(p, a) == StartCall(p, "create", "none", a)
GetInstance(p, id) == StartCall(p, "get", id, NoArgs)
PauseInstance(p, id) == StartCall(p, "pause", id, NoArgs)
DestroyInstance(p, id) == StartCall(p, "destroy", id, NoArgs)

\* c.httpClient.Do(req) enters the token-adding transport, which asks the
\* token source for a token: the cached one while it is valid
Token(p) ==
    /\ call[p].pc = "token"
    /\ call' = [call EXCEPT ![p].pc =
                   IF TokenValid(accessToken, tokenExpiresAt, now)
                   THEN "send" ELSE "tokenSend",
                            ![p].attempt = 0]
    /\ UNCHANGED <<retries, httpClient, ctxDone, endpoint, version, tenantID,
                   failed, accessToken, tokenExpiresAt,
                   origin, seeded, now, callers, nCalls, destroyed>>

\* one attempt of the token request: it goes through the same client as the
\* resource requests (the context handed to conf.Client carries
\* c.httpClient), and it is the one request made with that context: once the
\* context is done the attempt ends in the context's error
TokenAttempt(p, a) ==
    /\ call[p].pc = "tokenSend"
    /\ LET r == IF ctxDone THEN CtxErr ELSE a
           c == [call[p] EXCEPT !.tokReqs = @ + 1,
                                 !.tokLast = Observed(r)] IN
       IF ClientRetries(httpClient, ctxDone, retries, call[p].attempt, r)
       THEN /\ call' = [call EXCEPT ![p] = [c EXCEPT !.attempt = @ + 1]]
            /\ UNCHANGED <<accessToken, tokenExpiresAt, origin>>
       ELSE IF ClientOutcome(httpClient, r) = "resp" /\ TokenAccepted(r)
       THEN /\ accessToken' = r.tok
            /\ tokenExpiresAt' = TokenExpiry(r, now)
            /\ origin' = [tok |-> p, exp |-> p]
            /\ call' = [call EXCEPT ![p] = [c EXCEPT !.pc = "send",
                                                    !.attempt = 0]]
       ELSE /\ call' = [call EXCEPT ![p] =
                   IF ClientOutcome(httpClient, r) = "panic"
                   THEN [c EXCEPT !.pc = "panic", !.result = "panic"]
                   ELSE [c EXCEPT !.pc = "done", !.result = "err",
                                  !.err = TokenError(r.status)]]
            /\ UNCHANGED <<accessToken, tokenExpiresAt, origin>>
    /\ UNCHANGED <<retries, httpClient, ctxDone, endpoint, version, tenantID,
                   failed, seeded, now, callers, nCalls,
                   destroyed>>

\* faulty variant: the attempts are counted down in c.retries itself
SendAttemptSpendsRetries(p, r) ==
    /\ call[p].pc = "send"
    /\ retries' = IF retries > 0 THEN retries - 1 ELSE 0
    /\ call' = [call EXCEPT ![p] =
                   [call[p] EXCEPT !.resReqs = @ + 1, !.last = r,
                                   !.pc = "done",
                                   !.result = OpResult(call[p].op, r),
                                   !.err = OpError(call[p].op, r)]]
    /\ UNCHANGED <<httpClient, ctxDone, endpoint, version, tenantID, failed,
                   accessToken, tokenExpiresAt, origin, seeded, now, callers,
                   nCalls, destroyed>>

\* one attempt of the resource request, and what the operation returns when
\* the retry loop hands back its final answer: the give-up error of the
\* ErrorHandler, which do returns before it looks at the headers, or the
\* response, which do checks for the deprecation header and the operation
\* turns into its result
SendAttempt(p, r) ==
    /\ call[p].pc = "send"
    /\ LET c == [call[p] EXCEPT
                    !.resReqs = @ + 1,
                    !.last = r,
                    !.depSeen = @ \/ r.dep # "",
                    !.steady = @ /\ (call[p].resReqs = 0 \/ call[p].last = r)]
           op == call[p].op
       IN
       IF ClientRetries(httpClient, FALSE, retries, call[p].attempt, r)
       THEN call' = [call EXCEPT ![p] =
                [c EXCEPT !.attempt = @ + 1]]
       ELSE call' = [call EXCEPT ![p] =
                CASE ClientOutcome(httpClient, r) = "panic" ->
                        [c EXCEPT !.pc = "panic", !.result = "panic"]
                  [] ClientOutcome(httpClient, r) = "neterr" ->
                        [c EXCEPT !.pc = "done", !.result = "err",
                                  !.err = TransportError]
                  [] ClientOutcome(httpClient, r) = "err" ->
                        [c EXCEPT !.pc = "done", !.result = "err",
                                  !.err = GiveUpError(r,
                                              NumTries(call[p].attempt))]
                  [] OTHER ->
                        [c EXCEPT !.pc = "done",
                                  !.log = Warn(@, r, call[p].req.url),
                                  !.parsed = OpParsed(op, r),
                                  !.closed = OpClosed(op, r),
                                  !.err = OpError(op, r),
                                  !.desc = OpDesc(op, r),
                                  !.result = OpResult(op, r)]]
    /\ UNCHANGED <<retries, httpClient, ctxDone, endpoint, version, tenantID,
                   failed, accessToken, tokenExpiresAt,
                   origin, seeded, now, callers, nCalls, destroyed>>

\* the operation has returned to its caller
Returns(p) ==
    /\ call[p].pc = "done"
    /\ destroyed' = IF call[p].op = "destroy" /\ call[p].result = "ok"
                    THEN destroyed \cup {call[p].id} ELSE destroyed
    /\ call' = [call EXCEPT ![p] = IdleCall]
    /\ UNCHANGED <<retries, httpClient, ctxDone, endpoint, version, tenantID,
                   accessToken, tokenExpiresAt, origin, seeded, now, callers,
                   nCalls>>

Return(p) == Returns(p) /\ UNCHANGED failed

\* the same, with the outcome noted for the operations that follow
ReturnNoted(p) ==
    Returns(p) /\ failed' = (failed \/ call[p].result = "err")

Tick ==
    /\ now < MaxTime
    /\ now' = now + 1
    /\ UNCHANGED <<retries, httpClient, ctxDone, endpoint, version, tenantID,
                   failed, accessToken, tokenExpiresAt,
                   origin, seeded, callers, call, nCalls, destroyed>>

Next ==
    \/ \E p \in Callers : CreateInstance(p, DefaultArgs)
    \/ \E p \in Callers, id \in Ids : GetInstance(p, id)
    \/ \E p \in Callers, id \in Ids : PauseInstance(p, id)
    \/ \E p \in Callers, id \in Ids : DestroyInstance(p, id)
    \/ \E p \in Callers : Token(p)
    \/ \E p \in Callers, r \in TokResponses : TokenAttempt(p, r)
    \/ \E p \in Callers, r \in Responses : SendAttempt(p, r)
    \/ \E p \in Callers : Return(p)
    \/ Tick

Spec == Init /\ [][Next]_vars

---------------------------------------------------------------------------
\* The same client with its options, its requests and the headers and bodies
\* of the answers in view.

\* NewClient(ctx, clientID, clientSecret, tenantID, WithRetries(n),
\* WithEndpoint(e), WithVersion(v))
InitWire ==
    /\ retries \in 0..MaxRetries
    /\ httpClient = "retrying"
    /\ ctxDone = FALSE
    /\ \/ endpoint = DefaultEndpoint /\ version = DefaultVersion
       \/ endpoint = "http://127.0.0.1" /\ version = "v2"
    /\ tenantID = DefaultTenant
    /\ failed = FALSE
    /\ accessToken = ""
    /\ tokenExpiresAt = NoExpiry
    /\ origin = NoOrigin
    /\ seeded = NoSeed
    /\ now = 1
    /\ callers = {1}
    /\ call = [p \in Callers |-> IdleCall]
    /\ nCalls = 0
    /\ destroyed = {}

NextWire ==
    \/ \E p \in Callers : CreateInstance(p, DefaultArgs)
    \/ \E p \in Callers : GetInstance(p, "a")
    \/ \E p \in Callers : PauseInstance(p, "a")
    \/ \E p \in Callers : DestroyInstance(p, "a")
    \/ \E p \in Callers : Token(p)
    \/ \E p \in Callers, r \in TokResponses : TokenAttempt(p, r)
    \/ \E p \in Callers, r \in WireResponses : SendAttempt(p, r)
    \/ \E p \in Callers : Return(p)

SpecWire == InitWire /\ [][NextWire]_vars

---------------------------------------------------------------------------
\* The same client with its options WithRetries and WithHTTPClient, and with
\* the context given to NewClient cancelled at any moment.

\* the retry budgets tried: none, a small one, one above the documented cap
OptRetries == {0, MaxRetries, DocumentedMaxRetries + 1}

\* NewClient(ctx, clientID, clientSecret, tenantID, WithRetries(n)) with or
\* without WithHTTPClient(h), in either order: the options only assign
\* c.retries and c.httpClient, and a given h keeps the retrying client out;
\* with the defaults or with WithEndpoint and WithVersion
InitOpt ==
    /\ retries \in OptRetries
    /\ httpClient \in {"retrying", "plain"}
    /\ ctxDone = FALSE
    /\ \/ /\ endpoint = DefaultEndpoint /\ version = DefaultVersion
          /\ tenantID = DefaultTenant
       \/ /\ endpoint = "http://127.0.0.1" /\ version = "v2"
          /\ tenantID = "YOUR_TENANT_ID"
    /\ failed = FALSE
    /\ accessToken = ""
    /\ tokenExpiresAt = NoExpiry
    /\ origin = NoOrigin
    /\ seeded = NoSeed
    /\ now = 1
    /\ callers = {1}
    /\ call = [p \in Callers |-> IdleCall]
    /\ nCalls = 0
    /\ destroyed = {}

\* the answers tried: a token, a refusal, no answer; a descriptor, a 404, a
\* 500, no answer
OptTokResponses ==
    {[kind |-> "resp", status |-> 200, tok |-> "t1", exp |-> 11],
     [kind |-> "resp", status |-> 401, tok |-> "missing", exp |-> -1],
     CtxErr}
OptResponses ==
    {Resp(200, "", "", FullBody), Resp(404, "", "", TextBody),
     Resp(500, "", "", TextBody), NetErr}

\* the caller cancels the context it gave to NewClient, the only context the
\* client is ever given: the operations take none (aura.go:47-52) and
\* newRequest builds its requests with http.NewRequest (aura.go:361)
Cancel ==
    /\ ~ctxDone
    /\ ctxDone' = TRUE
    /\ call' = [p \in Callers |->
                   IF call[p].pc \in {"token", "tokenSend", "send"}
                   THEN [call[p] EXCEPT !.cancelled = TRUE] ELSE call[p]]
    /\ UNCHANGED <<retries, httpClient, endpoint, version, tenantID, failed,
                   accessToken, tokenExpiresAt, origin, seeded, now, callers,
                   nCalls, destroyed>>

\* the caller reads the message of the error it was handed: Error() formats
\* the cause, the request id and what responseBodyToString reads from the
\* body of the response, which it closes
Error(p) ==
    /\ call[p].pc = "done"
    /\ call[p].result = "err"
    /\ Len(call[p].texts) < MaxReads
    /\ call' = [call EXCEPT
                   ![p].texts =
                       Append(@, ErrorText(call[p].err,
                                           call[p].parsed \/ call[p].closed)),
                   ![p].closed = @ \/ call[p].err.response.kind = "resp"]
    /\ UNCHANGED <<retries, httpClient, ctxDone, endpoint, version, tenantID,
                   failed, accessToken, tokenExpiresAt, origin, seeded, now,
                   callers, nCalls, destroyed>>

NextOpt ==
    \/ \E p \in Callers, a \in CreateArgs : CreateInstance(p, a)
    \/ \E p \in Callers : GetInstance(p, "a")
    \/ \E p \in Callers : PauseInstance(p, "a")
    \/ \E p \in Callers : DestroyInstance(p, "a")
    \/ \E p \in Callers : Token(p)
    \/ \E p \in Callers, r \in OptTokResponses : TokenAttempt(p, r)
    \/ \E p \in Callers, r \in OptResponses : SendAttempt(p, r)
    \/ \E p \in Callers : Return(p)
    \/ \E p \in Callers : Error(p)
    \/ Cancel

SpecOpt == InitOpt /\ [][NextOpt]_vars

---------------------------------------------------------------------------
\* The client that keeps its own token cache (unnamed/part_000:345-719).

\* faulty variant: the cache is never consulted
NeedsAuthAlways(tok, exp, t) == TRUE

\* faulty variant: the expiry is never consulted
NeedsAuthNoExpiry(tok, exp, t) == tok = ""

\* faulty variant: an empty token is not taken for a missing one
NeedsAuthExpiryOnly(tok, exp, t) == t > exp

\* faulty variant: the token counts as expired at the instant of its expiry
NeedsAuthAtExpiry(tok, exp, t) == tok = "" \/ t >= exp

\* sign: a token is fetched when none is held or the expiry has passed
NeedsAuth(tok, exp, t) == tok = "" \/ t > exp

\* faulty variant: expires_in is not looked at
AuthAcceptedNoExpiresIn(r) ==
    r.kind = "resp" /\ IsSuccess(r.status) /\ r.tok # "missing"

\* authenticate accepts a 2xx answer that holds a string access_token and a
\* numerical expires_in
AuthAccepted(r) ==
    /\ r.kind = "resp"
    /\ IsSuccess(r.status)
    /\ r.tok # "missing"
    /\ r.exp # -1

\* faulty variant: the wrong status is taken for a stale authorization
IsStaleNotFound(r) == r.status = StatusNotFound

\* faulty variant: a 403 is an error like any other
IsStaleNever(r) == FALSE

\* faulty variant: every client error is taken for a stale authorization
IsStaleAnyError(r) == r.status >= 400 /\ r.status < 500

\* Do re-signs and re-sends the request when the answer is 403
IsStale(r) == r.status = StatusForbidden

\* expiries a constructor may be handed, around the construction time 1
SeedExpiries == {0, 1, 2}

\* the pre-seeding option: the token cache starts with the given token
WithAuthInfo(t, e) == [accessToken |-> t, tokenExpiresAt |-> e]

\* NewClient(clientID, clientSecret, tenantID, options...): no token, and the
\* expiry set to the construction time, unless a token is pre-seeded
NewTokClient ==
    /\ retries = 0
    /\ httpClient = "plain"
    /\ ctxDone = FALSE
    /\ endpoint = DefaultEndpoint
    /\ version = DefaultVersion
    /\ tenantID = DefaultTenant
    /\ failed = FALSE
    /\ origin = NoOrigin
    /\ now = 1
    /\ \/ /\ accessToken = ""
          /\ tokenExpiresAt = now
          /\ seeded = NoSeed
       \/ \E t \in Tokens, e \in SeedExpiries :
            /\ accessToken = WithAuthInfo(t, e).accessToken
            /\ tokenExpiresAt = WithAuthInfo(t, e).tokenExpiresAt
            /\ seeded = [set |-> TRUE, exp |-> e]
    /\ call = [p \in Callers |-> IdleCall]
    /\ nCalls = 0
    /\ destroyed = {}

InitTok == NewTokClient /\ callers = {1}

TokStartCall(p, op, id) ==
    /\ p \in callers
    /\ call[p].pc = "idle"
    /\ nCalls < MaxCalls
    /\ call' = [call EXCEPT ![p] = [IdleCall EXCEPT !.pc = "sign",
                                                    !.op = op, !.id = id]]
    /\ nCalls' = nCalls + 1
    /\ UNCHANGED <<retries, httpClient, ctxDone, endpoint, version, tenantID,
                   failed, accessToken, tokenExpiresAt,
                   origin, seeded, now, callers, destroyed>>

TokCreateInstance(p) == TokStartCall(p, "create", "none")
TokGetInstance(p, id) == TokStartCall(p, "get", id)
TokDestroyInstance(p, id) == TokStartCall(p, "destroy", id)

\* sign, line 642: authenticate or go on to add the header
sign(p) ==
    /\ call[p].pc = "sign"
    /\ call' = [call EXCEPT ![p].pc =
                   IF NeedsAuth(accessToken, tokenExpiresAt, now)
                   THEN "auth" ELSE "header"]
    /\ UNCHANGED <<retries, httpClient, ctxDone, endpoint, version, tenantID,
                   failed, accessToken, tokenExpiresAt,
                   origin, seeded, now, callers, nCalls, destroyed>>

\* authenticate, lines 654-677: the token request and the checks of its
\* answer; the body of a 2xx answer is decoded into res (pend) before the
\* checks of its two keys
authenticate(p, r) ==
    /\ call[p].pc = "auth"
    /\ LET c == [call[p] EXCEPT
                    !.tokReqs = @ + 1,
                    !.tokLast = Observed(r),
                    !.pend = IF r.kind = "resp" /\ IsSuccess(r.status)
                             THEN [tok |-> r.tok, exp |-> r.exp] ELSE @,
                    !.reauths = IF call[p].stage = 2 THEN @ + 1 ELSE @]
       IN
       call' = [call EXCEPT ![p] =
                   IF AuthAccepted(r)
                   THEN [c EXCEPT !.pc = "storeTok"]
                   ELSE [c EXCEPT !.pc = "done", !.result = "err"]]
    /\ UNCHANGED <<retries, httpClient, ctxDone, endpoint, version, tenantID,
                   failed, accessToken, tokenExpiresAt,
                   origin, seeded, now, callers, nCalls, destroyed>>

\* authenticate, line 678
storeToken(p) ==
    /\ call[p].pc = "storeTok"
    /\ accessToken' = call[p].pend.tok
    /\ origin' = [origin EXCEPT !.tok = p]
    /\ call' = [call EXCEPT ![p].pc = "storeExp"]
    /\ UNCHANGED <<retries, httpClient, ctxDone, endpoint, version, tenantID,
                   failed, tokenExpiresAt, seeded, now,
                   callers, nCalls, destroyed>>

\* authenticate, line 679
storeExpiry(p) ==
    /\ call[p].pc = "storeExp"
    /\ tokenExpiresAt' = now + call[p].pend.exp
    /\ origin' = [origin EXCEPT !.exp = p]
    /\ call' = [call EXCEPT ![p].pc = "header"]
    /\ UNCHANGED <<retries, httpClient, ctxDone, endpoint, version, tenantID,
                   failed, accessToken, seeded, now,
                   callers, nCalls, destroyed>>

\* sign, line 648: one more Authorization value on the request
addHeader(p) ==
    /\ call[p].pc = "header"
    /\ call' = [call EXCEPT ![p].pc = "do",
                            ![p].hdr = Append(@, accessToken)]
    /\ UNCHANGED <<retries, httpClient, ctxDone, endpoint, version, tenantID,
                   failed, accessToken, tokenExpiresAt,
                   origin, seeded, now, callers, nCalls, destroyed>>

\* Do, lines 626-637, and what the operation makes of the answer.  The first
\* send reads resp.StatusCode before looking at err, so a transport error
\* there is a nil dereference; the re-send hands resp and err back as they are
Do(p, r) ==
    /\ call[p].pc = "do"
    /\ LET c == [call[p] EXCEPT
                    !.resReqs = @ + 1,
                    !.resent = IF call[p].stage = 2 THEN @ + 1 ELSE @,
                    !.last = r,
                    !.first = IF call[p].resReqs = 0 THEN Observed(r) ELSE @,
                    !.steady = @ /\ (call[p].resReqs = 0 \/ call[p].last = r)]
       IN
       IF call[p].stage = 1 /\ r.kind = "err"
       THEN /\ call' = [call EXCEPT ![p] =
                           [c EXCEPT !.pc = "panic", !.result = "panic"]]
            /\ UNCHANGED <<accessToken, origin>>
       ELSE IF call[p].stage = 1 /\ IsStale(r)
       THEN /\ accessToken' = ""
            /\ origin' = [origin EXCEPT !.tok = 0]
            /\ call' = [call EXCEPT ![p] = [c EXCEPT !.pc = "sign", !.stage = 2]]
       ELSE /\ call' = [call EXCEPT ![p] =
                           [c EXCEPT !.pc = "done",
                                     !.result = IF r.kind = "err" THEN "err"
                                                ELSE OpResult(call[p].op, r)]]
            /\ UNCHANGED <<accessToken, origin>>
    /\ UNCHANGED <<retries, httpClient, ctxDone, endpoint, version, tenantID,
                   failed, tokenExpiresAt, seeded, now,
                   callers, nCalls, destroyed>>

NextTok ==
    \/ \E p \in Callers : TokCreateInstance(p)
    \/ \E p \in Callers, id \in Ids : TokGetInstance(p, id)
    \/ \E p \in Callers, id \in Ids : TokDestroyInstance(p, id)
    \/ \E p \in Callers : sign(p)
    \/ \E p \in Callers, r \in TokResponses : authenticate(p, r)
    \/ \E p \in Callers : storeToken(p)
    \/ \E p \in Callers : storeExpiry(p)
    \/ \E p \in Callers : addHeader(p)
    \/ \E p \in Callers, r \in Responses : Do(p, r)
    \/ \E p \in Callers : Return(p)
    \/ Tick

SpecTok == InitTok /\ [][NextTok]_vars

\* Two callers share the client; each makes its calls from its own goroutine,
\* and nothing orders their accesses to the token cache.
InitTok2 == NewTokClient /\ callers = {1, 2}

\* the answers the two callers are given: two token responses that differ in
\* token and lifetime, a refusal; a descriptor, a 403, a 404
TokResponses2 ==
    {[kind |-> "resp", status |-> 200, tok |-> "t1", exp |-> 0],
     [kind |-> "resp", status |-> 200, tok |-> "t2", exp |-> 11],
     [kind |-> "resp", status |-> 401, tok |-> "missing", exp |-> -1]}
Responses2 ==
    {Resp(200, "", "", FullBody), Resp(403, "", "", TextBody),
     Resp(404, "", "", TextBody)}

NextTok2 ==
    \/ \E p \in Callers : TokGetInstance(p, "a")
    \/ \E p \in Callers : sign(p)
    \/ \E p \in Callers, r \in TokResponses2 : authenticate(p, r)
    \/ \E p \in Callers : storeToken(p)
    \/ \E p \in Callers : storeExpiry(p)
    \/ \E p \in Callers : addHeader(p)
    \/ \E p \in Callers, r \in Responses2 : Do(p, r)
    \/ \E p \in Callers : Return(p)
    \/ Tick

SpecTok2 == InitTok2 /\ [][NextTok2]_vars

\* One caller makes its calls one after the other, and whether an earlier
\* one returned an error is kept in view.
InitSeq == NewTokClient /\ callers = {1}

\* the answers tried: a descriptor, a 2xx without `data`, a 403, a 404, a
\* 500, no answer
SeqResponses ==
    {Resp(200, "", "", FullBody), Resp(200, "", "", NoDataBody),
     Resp(403, "", "", TextBody), Resp(404, "", "", TextBody),
     Resp(500, "", "", TextBody), NetErr}

NextSeq ==
    \/ \E p \in Callers : TokCreateInstance(p)
    \/ \E p \in Callers : TokGetInstance(p, "a")
    \/ \E p \in Callers : TokDestroyInstance(p, "a")
    \/ \E p \in Callers : sign(p)
    \/ \E p \in Callers, r \in TokResponses2 : authenticate(p, r)
    \/ \E p \in Callers : storeToken(p)
    \/ \E p \in Callers : storeExpiry(p)
    \/ \E p \in Callers : addHeader(p)
    \/ \E p \in Callers, r \in SeqResponses : Do(p, r)
    \/ \E p \in Callers : ReturnNoted(p)
    \/ Tick

SpecSeq == InitSeq /\ [][NextSeq]_vars

---------------------------------------------------------------------------
\* The client that the tests of unnamed/part_001 construct: the token cache
\* of sign and authenticate together with the retry option, so that each send
\* of Do is a run of the retry loop.

\* NewClient(clientID, clientSecret, tenantID, WithRetries(n)), with or
\* without WithAuthInfo(t, e)
InitMid ==
    /\ retries \in 0..MaxRetries
    /\ httpClient = "retrying"
    /\ ctxDone = FALSE
    /\ endpoint = DefaultEndpoint
    /\ version = DefaultVersion
    /\ tenantID = DefaultTenant
    /\ failed = FALSE
    /\ origin = NoOrigin
    /\ now = 1
    /\ \/ /\ accessToken = ""
          /\ tokenExpiresAt = now
          /\ seeded = NoSeed
       \/ \E e \in SeedExpiries :
            /\ accessToken = WithAuthInfo("t1", e).accessToken
            /\ tokenExpiresAt = WithAuthInfo("t1", e).tokenExpiresAt
            /\ seeded = [set |-> TRUE, exp |-> e]
    /\ callers = {1}
    /\ call = [p \in Callers |-> IdleCall]
    /\ nCalls = 0
    /\ destroyed = {}

\* the answers tried: a descriptor, a 403, a 404, a 500, no answer
MidResponses ==
    {Resp(200, "", "", FullBody), Resp(403, "", "", TextBody),
     Resp(404, "", "", TextBody), Resp(500, "", "", TextBody), NetErr}

\* Do with the retrying client underneath: every c.httpClient.Do(req) is a
\* run of the retry loop with the whole budget, and the answer the loop hands
\* back is the one Do tests for 403
DoRetrying(p, r) ==
    /\ call[p].pc = "do"
    /\ LET c == [call[p] EXCEPT
                    !.resReqs = @ + 1,
                    !.resent = IF call[p].stage = 2 THEN @ + 1 ELSE @,
                    !.last = r,
                    !.first = IF call[p].resReqs = 0 THEN Observed(r) ELSE @,
                    !.steady = @ /\ (call[p].resReqs = 0 \/ call[p].last = r)]
       IN
       IF RetryAgain(retries, call[p].attempt, r)
       THEN /\ call' = [call EXCEPT ![p] = [c EXCEPT !.attempt = @ + 1]]
            /\ UNCHANGED <<accessToken, origin>>
       ELSE IF LoopOutcome(r) = "panic"
       THEN /\ call' = [call EXCEPT ![p] =
                           [c EXCEPT !.pc = "panic", !.result = "panic"]]
            /\ UNCHANGED <<accessToken, origin>>
       ELSE IF call[p].stage = 1 /\ IsStale(r)
       THEN /\ accessToken' = ""
            /\ origin' = [origin EXCEPT !.tok = 0]
            /\ call' = [call EXCEPT ![p] = [c EXCEPT !.pc = "sign",
                                                    !.stage = 2,
                                                    !.attempt = 0]]
       ELSE /\ call' = [call EXCEPT ![p] =
                   IF LoopOutcome(r) = "err"
                   THEN [c EXCEPT !.pc = "done", !.result = "err",
                                  !.err = GiveUpError(r,
                                              NumTries(call[p].attempt))]
                   ELSE [c EXCEPT !.pc = "done",
                                  !.result = OpResult(call[p].op, r)]]
            /\ UNCHANGED <<accessToken, origin>>
    /\ UNCHANGED <<retries, httpClient, ctxDone, endpoint, version, tenantID,
                   failed,
                   tokenExpiresAt, seeded, now, callers, nCalls, destroyed>>

NextMid ==
    \/ \E p \in Callers : TokCreateInstance(p)
    \/ \E p \in Callers : TokGetInstance(p, "a")
    \/ \E p \in Callers : TokDestroyInstance(p, "a")
    \/ \E p \in Callers : sign(p)
    \/ \E p \in Callers, r \in TokResponses2 : authenticate(p, r)
    \/ \E p \in Callers : storeToken(p)
    \/ \E p \in Callers : storeExpiry(p)
    \/ \E p \in Callers : addHeader(p)
    \/ \E p \in Callers, r \in MidResponses : DoRetrying(p, r)
    \/ \E p \in Callers : Return(p)
    \/ Tick

SpecMid == InitMid /\ [][NextMid]_vars

---------------------------------------------------------------------------
\* Properties of the client of aura.go (Spec).

\* C1: whatever the operation and the retry budget N, when the resource
\* endpoint answers every attempt with 500, exactly N+1 resource requests
\* are sent and the operation then returns an error.
C1_RetryBudget ==
    \A p \in Callers :
        LET c == call[p] IN
        (c.resReqs >= 1 /\ c.steady /\ c.last.kind = "resp"
                        /\ c.last.status = 500)
        => /\ c.pc \in {"send", "done"}
           /\ c.pc = "send" => c.resReqs <= retries
           /\ c.pc = "done" => (c.resReqs = retries + 1 /\ c.result = "err")

C1_Witness ==
    \E p \in Callers :
        /\ call[p].pc = "done" /\ call[p].op = "pause"
        /\ call[p].steady /\ call[p].last.status = 500
        /\ retries >= 2 /\ call[p].resReqs = retries + 1
        /\ call[p].result = "err"

\* C2: a resource response is retried only when its status is 500, 502, 503
\* or 504; an answer with any other status is the only request of its call.
C2_RetryOnlyListedStatuses ==
    \A p \in Callers :
        LET c == call[p] IN
        /\ (c.pc = "send" /\ c.attempt >= 1 /\ c.last.kind = "resp")
              => c.last.status \in {500, 502, 503, 504}
        /\ (c.pc = "done" /\ c.steady /\ c.last.kind = "resp"
               /\ c.last.status \notin {500, 502, 503, 504})
              => c.resReqs = 1

\* C3: DestroyInstance returns success exactly when the final response has
\* status 404 or a status in [200, 300), and an error for every other status.
C3_DestroyVerdict ==
    \A p \in Callers :
        LET c == call[p] IN
        (c.pc = "done" /\ c.op = "destroy" /\ c.last.kind = "resp")
        => (c.result = "ok" <=>
                (c.last.status = 404
                    \/ (c.last.status >= 200 /\ c.last.status < 300)))

C3_Witness ==
    \E p \in Callers :
        /\ call[p].pc = "done" /\ call[p].op = "destroy"
        /\ call[p].last.kind = "resp" /\ call[p].last.status = 299
        /\ call[p].result = "ok"

\* C4: once a destroy of an id has succeeded, a later DestroyInstance of the
\* same id that the server answers with 404 returns success.
C4_DestroyIdempotent ==
    \A p \in Callers :
        LET c == call[p] IN
        (c.pc = "done" /\ c.op = "destroy" /\ c.id \in destroyed
            /\ c.last.kind = "resp" /\ c.last.status = 404)
        => c.result = "ok"

C4_Witness ==
    \E p \in Callers :
        /\ call[p].pc = "done" /\ call[p].op = "destroy"
        /\ call[p].id \in destroyed
        /\ call[p].last.kind = "resp" /\ call[p].last.status = 404
        /\ call[p].result = "ok"

C10_TransportErrorReturned ==
    \A p \in Callers :
        LET c == call[p] IN
        /\ c.pc # "panic"
        /\ (c.last.kind = "err" \/ c.tokLast = -1)
              => (c.resReqs <= retries + 1 /\ c.tokReqs <= retries + 1)
        /\ (c.pc = "done" /\ (c.last.kind = "err" \/ c.tokLast = -1))
              => c.result = "err"

---------------------------------------------------------------------------
\* Properties of the client with its own token cache (SpecTok).

\* C5: the token endpoint is called only while no unexpired token is cached:
\* the first call of a client without a token authenticates once, and a call
\* that finds an unexpired token makes no token request (short of a 403).
C5_AuthOnlyWhenStale ==
    \A p \in Callers :
        LET c == call[p] IN
        /\ c.pc = "auth" => (accessToken = "" \/ now > tokenExpiresAt)
        /\ c.tokReqs <= c.stage
        /\ (nCalls = 1 /\ ~seeded.set /\ c.stage = 1 /\ c.pc = "do")
              => c.tokReqs = 1

C5_Witness ==
    \E p \in Callers :
        /\ nCalls = 2 /\ ~seeded.set
        /\ call[p].pc = "do" /\ call[p].stage = 1
        /\ call[p].tokReqs = 0
        /\ accessToken # "" /\ now <= tokenExpiresAt

\* C6: a client pre-seeded with a token whose expiry is in the future sends
\* no token request before its first resource request; pre-seeded with a
\* token whose expiry is in the past it sends exactly one.
C6_PreSeededToken ==
    \A p \in Callers :
        LET c == call[p] IN
        (seeded.set /\ nCalls = 1 /\ c.stage = 1 /\ c.pc = "do")
        => /\ now < seeded.exp => c.tokReqs = 0
           /\ seeded.exp < 1 => c.tokReqs = 1

C6_Witness ==
    \E p \in Callers :
        /\ seeded.set /\ seeded.exp < 1 /\ nCalls = 1
        /\ call[p].stage = 1 /\ call[p].pc = "do" /\ call[p].tokReqs = 1

\* C7: a 403 answer to a resource request clears the cached token, is
\* followed by exactly one more token request and, when that succeeds, by
\* exactly one re-send; a 403 answer to the re-send ends the operation with
\* an error, without another token request or re-send.
C7_ReauthOnceOn403 ==
    \A p \in Callers :
        LET c == call[p] IN
        /\ c.reauths <= 1 /\ c.resReqs <= 2
        /\ c.first = 403 =>
              /\ c.pc \in {"sign", "auth", "storeTok", "storeExp", "header",
                           "do", "done"}
              /\ c.pc = "sign" => (accessToken = "" /\ c.reauths = 0)
              /\ c.pc \in {"storeTok", "storeExp", "header", "do"}
                    => (c.reauths = 1 /\ c.resReqs = 1)
              /\ c.pc = "done"
                    => /\ c.reauths = 1
                       /\ c.resReqs = 2 \/ (c.resReqs = 1 /\ c.result = "err")
                       /\ (c.resReqs = 2 /\ c.last.kind = "resp"
                             /\ c.last.status = 403) => c.result = "err"

C7_Witness ==
    \E p \in Callers :
        /\ call[p].pc = "done" /\ call[p].first = 403
        /\ call[p].resReqs = 2 /\ call[p].reauths = 1
        /\ call[p].last.kind = "resp" /\ call[p].last.status = 403
        /\ call[p].result = "err"

\* C9 as stated: sign fetches a token if and only if none is held or the
\* current time is at or after the stored expiry.
C9_FetchAtOrAfterExpiry ==
    [][\A p \in Callers :
          (call[p].pc = "sign" /\ call'[p].pc # "sign")
          => (call'[p].pc = "auth"
                <=> (accessToken = "" \/ now >= tokenExpiresAt))]_vars

\* C9, amended: sign fetches a token if and only if none is held or the
\* current time is after the stored expiry; at the instant now = expiry a
\* held token is still used.
C9_FetchAfterExpiry ==
    [][\A p \in Callers :
          (call[p].pc = "sign" /\ call'[p].pc # "sign")
          => (call'[p].pc = "auth"
                <=> (accessToken = "" \/ now > tokenExpiresAt))]_vars

C9_Witness ==
    \E p \in Callers :
        /\ call[p].pc = "header" /\ call[p].tokReqs = 0
        /\ accessToken # "" /\ now = tokenExpiresAt

---------------------------------------------------------------------------
\* Properties of the errors, descriptors and requests of aura.go.

\* C11: for create, get and pause every final response with a status outside
\* [200, 300) yields an error that carries the status of the response, the
\* value of its X-Request-Id header (empty when absent) and its raw body, and
\* the response is never handed to a decoder.
C11_ErrorCarriesResponse ==
    \A p \in Callers :
        LET c == call[p] IN
        (c.pc = "done" /\ c.op \in {"create", "get", "pause"}
            /\ c.last.kind = "resp"
            /\ ~(c.last.status >= 200 /\ c.last.status < 300))
        => /\ c.result = "err"
           /\ c.err.Err.kind \in {"status", "giveup"}
           /\ c.err.Err.status = c.last.status
           /\ c.err.requestID = c.last.reqId
           /\ ErrorText(c.err, c.parsed).body = c.last.body
           /\ ~c.parsed

C11_Witness ==
    \E p \in Callers :
        /\ call[p].pc = "done" /\ call[p].op = "get"
        /\ call[p].last.kind = "resp" /\ call[p].last.status = 404
        /\ call[p].last.body = FullBody
        /\ call[p].err.requestID = "track-me-123"
        /\ call[p].err.Err.status = 404
        /\ ~call[p].parsed

\* C12: when the last of the allotted attempts is answered with a retryable
\* status, the returned give-up error embeds the status of that last response
\* and an attempt count equal to retries+1.
C12_GiveUpError ==
    \A p \in Callers :
        LET c == call[p] IN
        (c.pc = "done" /\ c.last.kind = "resp"
            /\ c.last.status \in {500, 502, 503, 504})
        => /\ c.result = "err"
           /\ c.err.Err.kind = "giveup"
           /\ c.err.Err.status = c.last.status
           /\ c.err.Err.attempts = retries + 1
           /\ c.resReqs = retries + 1

C12_Witness ==
    \E p \in Callers :
        /\ call[p].pc = "done" /\ call[p].op = "get"
        /\ retries = 1 /\ call[p].steady
        /\ call[p].last.kind = "resp" /\ call[p].last.status = 500
        /\ call[p].err.Err.kind = "giveup"
        /\ call[p].err.Err.attempts = 2

\* C13: a 2xx create or get response whose `data` object lacks a required
\* key, or holds it with a value that is no string, yields a decode error that
\* names such a key -- that very key when it is the only faulty one.  Create
\* requires id, connection_url, username, password, name, tenant_id,
\* cloud_provider, region, type; get requires id, name, status, tenant_id,
\* cloud_provider, connection_url, region, type, memory, storage.
C13_DecodeErrorNamesKey ==
    \A p \in Callers :
        LET c == call[p]
            m == c.last.body.m
            required ==
                IF c.op = "create"
                THEN {"id", "connection_url", "username", "password", "name",
                      "tenant_id", "cloud_provider", "region", "type"}
                ELSE {"id", "name", "status", "tenant_id", "cloud_provider",
                      "connection_url", "region", "type", "memory", "storage"}
            faulty == {k \in required :
                          k \notin DOMAIN m \/ m[k].t # "string"}
        IN
        (c.pc = "done" /\ c.op \in {"create", "get"}
            /\ c.last.kind = "resp"
            /\ c.last.status >= 200 /\ c.last.status < 300
            /\ c.last.body.form = "json" /\ c.last.body.env = "data"
            /\ faulty # {})
        => /\ c.result = "err"
           /\ c.desc = <<>>
           /\ c.err.Err.kind = "missing"
           /\ c.err.Err.key \in faulty

C13_Witness ==
    \E p \in Callers :
        /\ call[p].pc = "done" /\ call[p].op = "get"
        /\ call[p].last.kind = "resp" /\ call[p].last.status = 200
        /\ call[p].last.body = JsonBody("data", Without(NamedData, "status"))
        /\ call[p].result = "err"
        /\ call[p].err.Err.key = "status"

\* C14: a 2xx create or get response whose JSON body has no top-level `data`
\* key yields a decode error, never a descriptor.
C14_MissingEnvelope ==
    \A p \in Callers :
        LET c == call[p] IN
        (c.pc = "done" /\ c.op \in {"create", "get"}
            /\ c.last.kind = "resp"
            /\ c.last.status >= 200 /\ c.last.status < 300
            /\ c.last.body.form = "json" /\ c.last.body.env = "none")
        => /\ c.result = "err"
           /\ c.err.Err.kind \in DecodeKinds
           /\ c.desc = <<>>

C14_Witness ==
    \E p \in Callers :
        /\ call[p].pc = "done" /\ call[p].op = "create"
        /\ call[p].last.kind = "resp" /\ call[p].last.status = 200
        /\ call[p].last.body = NoDataBody
        /\ call[p].result = "err"
        /\ call[p].err.Err.kind = "nodata"

\* C15: a valid create or get response (2xx, a `data` object that holds every
\* required key as a string) is decoded, and each field of the returned
\* descriptor equals the value of the corresponding key of `data`.
C15_FieldsVerbatim ==
    \A p \in Callers :
        LET c == call[p]
            m == c.last.body.m
            d == c.desc
            required ==
                IF c.op = "create"
                THEN {"id", "connection_url", "username", "password", "name",
                      "tenant_id", "cloud_provider", "region", "type"}
                ELSE {"id", "name", "status", "tenant_id", "cloud_provider",
                      "connection_url", "region", "type", "memory", "storage"}
            valid == /\ c.last.kind = "resp"
                     /\ c.last.status >= 200 /\ c.last.status < 300
                     /\ c.last.body.form = "json" /\ c.last.body.env = "data"
                     /\ \A k \in required :
                            k \in DOMAIN m /\ m[k].t = "string"
        IN
        (c.pc = "done" /\ c.op \in {"create", "get"} /\ valid)
        => /\ c.result = "ok"
           /\ d.ID = m["id"].v
           /\ d.Name = m["name"].v
           /\ d.Region = m["region"].v
           /\ d.TenantID = m["tenant_id"].v
           /\ d.CloudProvider = m["cloud_provider"].v
           /\ d.InstanceType = m["type"].v
           /\ d.ConnectionURL = m["connection_url"].v
           /\ c.op = "get" => /\ d.Status = m["status"].v
                              /\ d.Memory = m["memory"].v
                              /\ d.Storage = m["storage"].v
           /\ c.op = "create" => /\ d.Username = m["username"].v
                                 /\ d.Password = m["password"].v

C15_Witness ==
    \E p \in Callers :
        /\ call[p].pc = "done" /\ call[p].op = "get"
        /\ call[p].last.body = FullBody /\ call[p].result = "ok"
        /\ call[p].desc.ID = "id" /\ call[p].desc.Memory = "memory"
        /\ call[p].desc.Storage = "storage"

C17_PausePut ==
    \A p \in Callers :
        LET c == call[p] IN
        (c.op = "pause" /\ c.pc # "idle" /\ version = "v1")
        => /\ c.req.method = "PUT"
           /\ c.req.url = <<endpoint, "v1", "instances", c.id, "pause">>
           /\ (c.pc = "done" /\ c.last.kind = "resp" /\ c.last.status = 200)
                 => c.result = "ok"

\* C18: a warning that names the API version and the request URL reaches the
\* logger whenever a response of the call carried the deprecation header and
\* never otherwise, and the header changes nothing in what the operation
\* returns.
C18_DeprecationWarning ==
    \A p \in Callers :
        LET c == call[p] IN
        c.pc = "done"
        => /\ c.depSeen <=> Len(c.log) >= 1
           /\ \A i \in DOMAIN c.log :
                  c.log[i].version = version /\ c.log[i].url = c.req.url
           /\ (c.last.kind = "resp" /\ ~DefaultRetryPolicy(c.last))
                 => /\ c.result = OpResult(c.op, [c.last EXCEPT !.dep = ""])
                    /\ c.desc = OpDesc(c.op, [c.last EXCEPT !.dep = ""])

\* C19: by the time an operation returns, the body of the response it got
\* from the transport is closed, on the success path and on every error path.
C19_ResponseClosed ==
    \A p \in Callers :
        LET c == call[p] IN
        (c.pc = "done" /\ c.last.kind = "resp") => c.closed

---------------------------------------------------------------------------
\* Properties of the token cache under two callers (SpecTok2).

\* C20: once the calls of both callers have finished, the cached token and
\* the cached expiry come from the same token response: either one caller's
\* response wrote both, or the two responses that wrote them carried the same
\* token and the same lifetime.
C20_CacheFromOneResponse ==
    ((\A p \in callers : call[p].pc = "done")
        /\ accessToken # "" /\ origin.tok # 0 /\ origin.exp # 0)
    => \/ origin.tok = origin.exp
       \/ call[origin.tok].pend = call[origin.exp].pend

---------------------------------------------------------------------------
\* More properties of the client with its own token cache (SpecTok).

\* C25: the cached token and expiry change only on first use, on expiry and
\* on the invalidation after a 403: while an unexpired token is held sign
\* goes on without a token request, and no step of a call that has made no
\* token request and is not sent back by a 403 changes the token or the
\* expiry.
C25_CacheFrame ==
    [][\A p \in callers :
         /\ call[p].pc = "sign" /\ call[p].stage = 1
               /\ accessToken # "" /\ now <= tokenExpiresAt
               /\ call'[p].pc # "sign"
            => /\ call'[p].pc = "header"
               /\ accessToken' = accessToken
               /\ tokenExpiresAt' = tokenExpiresAt
         /\ call[p].pc \in {"header", "do"} /\ call[p].tokReqs = 0
               /\ call'[p].last.status # StatusForbidden
            => /\ accessToken' = accessToken
               /\ tokenExpiresAt' = tokenExpiresAt
               /\ call'[p].tokReqs = 0]_vars

\* a call went through on the held token and was answered 404
C25_Witness ==
    \E p \in callers :
        /\ call[p].pc = "done"
        /\ call[p].tokReqs = 0
        /\ call[p].last.kind = "resp" /\ call[p].last.status = StatusNotFound
        /\ accessToken # ""

\* C26: a token answer that is not 2xx, or a 2xx answer whose access_token
\* is missing or not a string or whose expires_in is missing or not a number,
\* ends the call with an error and changes neither the cached token nor the
\* expiry; an accepted answer is stored as its access_token with the expiry
\* at the current time plus its expires_in.
C26_TokenExchange ==
    [][\A p \in callers :
         /\ call[p].pc = "auth" /\ call'[p].pc # "auth"
            => /\ accessToken' = accessToken
               /\ tokenExpiresAt' = tokenExpiresAt
               /\ IF \/ ~IsSuccess(call'[p].tokLast)
                     \/ call'[p].pend.tok = "missing"
                     \/ call'[p].pend.exp = -1
                  THEN call'[p].pc = "done" /\ call'[p].result = "err"
                  ELSE call'[p].pc = "storeTok"
         /\ call[p].pc = "storeTok" /\ call'[p].pc # "storeTok"
            => /\ accessToken' = call[p].pend.tok
               /\ tokenExpiresAt' = tokenExpiresAt
               /\ call'[p].pc = "storeExp"
         /\ call[p].pc = "storeExp" /\ call'[p].pc # "storeExp"
            => /\ accessToken' = accessToken
               /\ tokenExpiresAt' = now + call[p].pend.exp
               /\ call'[p].pc = "header"]_vars

\* a call was refused for a 2xx token answer without expires_in while a
\* token was held, and the held token is still there
C26_Witness ==
    \E p \in callers :
        /\ call[p].pc = "done" /\ call[p].result = "err"
        /\ call[p].tokReqs = 1
        /\ IsSuccess(call[p].tokLast)
        /\ call[p].pend.tok \in Tokens /\ call[p].pend.exp = -1
        /\ accessToken \in Tokens

\* C27: every resource request that is sent carries exactly one
\* Authorization value, the cached token; the request sent again after a 403
\* carries the new token and not the invalidated one.
C27_OneAuthorization ==
    \A p \in callers :
        call[p].pc = "do"
            => Len(call[p].hdr) = 1 /\ call[p].hdr[1] = accessToken

\* C21: checking the cached token and replacing it is a critical section: of
\* two concurrent calls that find the token absent or expired only one makes
\* the token request, so two callers are never both between the check of
\* sign and the end of authenticate.
C21_TokenCriticalSection ==
    \A p, q \in callers :
        (p # q /\ call[p].pc \in {"auth", "storeTok", "storeExp"})
            => call[q].pc \notin {"auth", "storeTok", "storeExp"}

\* C31: reading the message of an operation error is repeatable: every call
\* of Error() on the same error returns the same text, the same response
\* body included.
C31_ErrorRepeatable ==
    \A p \in Callers :
        \A i, j \in DOMAIN call[p].texts :
            call[p].texts[i] = call[p].texts[j]

\* C34: CreateInstance sends a POST to {endpoint}/{version}/instances whose
\* JSON body has exactly the keys name, tenant_id, cloud_provider, type,
\* memory, version, region; tenant_id is the tenant id given at construction,
\* the other values are the arguments of the call, and the version in the
\* URL is the API version of the client, not the `version` argument.
C34_CreateRequest ==
    \A p \in Callers :
        LET c == call[p] IN
        (c.op = "create" /\ c.resReqs >= 1)
        => /\ c.req.method = "POST"
           /\ c.req.url = <<endpoint, version, "instances">>
           /\ DOMAIN c.req.body =
                 {"name", "tenant_id", "cloud_provider", "type", "memory",
                  "version", "region"}
           /\ c.req.body.tenant_id = tenantID
           /\ c.req.body.name = c.args.name
           /\ c.req.body.cloud_provider = c.args.cloudProvider
           /\ c.req.body.type = c.args.instanceType
           /\ c.req.body.memory = c.args.memory
           /\ c.req.body.version = c.args.version
           /\ c.req.body.region = c.args.region

\* a create request was sent by a client with its own endpoint, API version
\* and tenant, for version "4" of the database
C34_Witness ==
    \E p \in Callers :
        /\ call[p].op = "create" /\ call[p].resReqs >= 1
        /\ version = "v2" /\ tenantID = "YOUR_TENANT_ID"
        /\ call[p].args.version = "4"
        /\ call[p].req.url = <<"http://127.0.0.1", "v2", "instances">>
        /\ call[p].req.body.version = "4"
        /\ call[p].req.body.tenant_id = "YOUR_TENANT_ID"

\* C35: the configuration of the client (endpoint, API version, retry count,
\* tenant id, transport) is fixed at construction: no step of any operation,
\* successful or not, changes it.
C35_ConfigurationFixed ==
    [][/\ endpoint' = endpoint
       /\ version' = version
       /\ retries' = retries
       /\ tenantID' = tenantID
       /\ httpClient' = httpClient]_vars

\* a client with its own configuration has had an operation succeed and the
\* next one fail after its retries
C35_Witness ==
    \E p \in Callers :
        /\ endpoint = "http://127.0.0.1" /\ version = "v2"
        /\ tenantID = "YOUR_TENANT_ID" /\ retries = MaxRetries
        /\ destroyed # {}
        /\ call[p].pc = "done" /\ call[p].result = "err"
        /\ call[p].resReqs = retries + 1

---------------------------------------------------------------------------
\* Properties of calls made one after the other (SpecSeq).

\* C32: errors are self-contained per call: after an operation has failed a
\* following operation is sent with a token (one it fetches first when none
\* is held), and when every answer it gets is a healthy one (the token
\* granted, the request answered 200 with a full descriptor) it succeeds.
C32_ErrorsSelfContained ==
    \A p \in callers :
        LET c == call[p]
            granted == /\ IsSuccess(c.tokLast)
                       /\ c.pend.tok # "missing" /\ c.pend.exp # -1
            healthy == /\ c.tokReqs = 0 \/ granted
                       /\ c.resReqs = 0
                            \/ (c.steady
                                /\ c.last = Resp(200, "", "", FullBody))
        IN
        failed
        => /\ c.pc = "do"
                => /\ accessToken # ""
                   /\ c.hdr # <<>>
                   /\ c.hdr[Len(c.hdr)] = accessToken
           /\ (c.pc = "done" /\ healthy)
                => c.result = "ok" /\ c.resReqs = 1

\* after a failed operation that left no token behind, the next one fetched
\* a token and succeeded
C32_Witness ==
    \E p \in callers :
        /\ failed
        /\ seeded.set
        /\ call[p].pc = "done" /\ call[p].result = "ok"
        /\ call[p].tokReqs = 1 /\ call[p].resReqs = 1
        /\ now <= seeded.exp

---------------------------------------------------------------------------
\* More properties of the client of aura.go with its answers in view
\* (SpecWire).

\* C30: the error returned for a 2xx create or get response that fails
\* decoding carries the raw body of the response and its correlation id.
C30_DecodeErrorCarriesBody ==
    \A p \in Callers :
        LET c == call[p] IN
        (c.pc = "done" /\ c.op \in {"create", "get"}
            /\ c.last.kind = "resp" /\ IsSuccess(c.last.status)
            /\ c.result = "err")
        => /\ c.err.requestID = c.last.reqId
           /\ ErrorText(c.err, c.parsed).body = c.last.body

---------------------------------------------------------------------------
\* Properties of the options and the context of the client of aura.go
\* (SpecOpt).

\* C22: an operation whose context is cancelled while it is in flight
\* returns a cancellation error, and the cached token and expiry are left as
\* they were.
C22_CancelAborts ==
    \A p \in Callers :
        (call[p].pc = "done" /\ call[p].cancelled)
        => /\ call[p].result = "err"
           /\ call[p].err.Err.kind \in {"transport", "token"}
           /\ call[p].err.Err.status = 0

\* C23: WithRetries(n) governs the resource requests whether or not
\* WithHTTPClient is given too: a resource endpoint that answers every
\* attempt with 500 is sent n+1 requests.
C23_RetriesWithAnyClient ==
    \A p \in Callers :
        (call[p].pc = "done" /\ call[p].last.kind = "resp"
            /\ call[p].last.status = 500)
        => call[p].resReqs = retries + 1 /\ call[p].attempt = retries

\* C24: whatever number is given to WithRetries, a request is attempted at
\* most 4 times: the retries are capped at 3.
C24_RetriesCapped ==
    \A p \in Callers :
        call[p].resReqs <= DocumentedMaxRetries + 1

---------------------------------------------------------------------------
\* Properties of the token cache together with the retry option (SpecMid).

---------------------------------------------------------------------------
\* C33: CreateInstance and GetInstance return either a descriptor with every
\* field set from a string of the response and no error, or no descriptor
\* and an error; never a descriptor with only some fields set.
C33_DescriptorAllOrNothing ==
    \A p \in Callers :
        LET c == call[p]
            fields ==
                IF c.op = "create"
                THEN {"ID", "ConnectionURL", "Username", "Password", "Name",
                      "TenantID", "CloudProvider", "Region", "InstanceType"}
                ELSE {"ID", "ConnectionURL", "Name", "TenantID",
                      "CloudProvider", "Region", "InstanceType", "Status",
                      "Memory", "Storage"}
            m == c.last.body.m
        IN
        (c.pc = "done" /\ c.op \in {"create", "get"})
        => \/ /\ c.result = "ok"
              /\ c.err = NoError
              /\ DOMAIN c.desc = fields
              /\ \A f \in fields :
                    \E k \in DOMAIN m :
                        m[k].t = "string" /\ c.desc[f] = m[k].v
           \/ /\ c.result = "err"
              /\ c.err # NoError
              /\ DOMAIN c.desc = {}

\* a 2xx answer that lacks one key of the descriptor gave an error and no
\* descriptor
C33_Witness ==
    \E p \in Callers :
        /\ call[p].pc = "done" /\ call[p].op = "create"
        /\ call[p].last.kind = "resp" /\ call[p].last.status = 200
        /\ call[p].last.body = JsonBody("data", Without(NamedData, "region"))
        /\ call[p].result = "err"
        /\ call[p].err.Err.kind = "missing"
        /\ DOMAIN call[p].desc = {}

====
